---- MODULE Spec2Model ----
(***************************************************************************)
(* The WSE grid pipeline of make_wse_grids.py as a state machine.          *)
(*                                                                         *)
(* The state is the output workspace (the files the script creates), the   *)
(* named layers of the geoprocessing session, and the position of main in  *)
(* its loops.  Every function main calls is one action.  A function is     *)
(* translated statement by statement into a chain of steps over a local    *)
(* record st (files, layers, the engine operations performed, the messages *)
(* logged, and the control state run / return / raise).                    *)
(*                                                                         *)
(* The world is one-dimensional: a cross-section at station p lies on cell *)
(* p of a row of cells; polygons are sets of cell intervals; a raster is a *)
(* function from its data cells to elevations (a cell outside the domain   *)
(* is no-data).  Lengths are counted in quarters of a cell.                *)
(*                                                                         *)
(* round_rasters.py is a second, independent tool: its state is the record *)
(* round, and each iteration of its loop is one action.                    *)
(***************************************************************************)
EXTENDS Integers, Sequences, FiniteSets, TLC

\* ------------------------------------------------------------- bounds
\* how many times the tool is invoked over the same workspace
MaxRuns == 2
\* how many records the elevation table of SpecJoin holds at most
MaxRecs == 2
\* how many rasters round_rasters.py is given at most
MaxRasters == 2
\* the cells of the raster row, 1..NumCells
NumCells == 4

Cells == 1..NumCells

\* ------------------------------------------------------------- inputs
\* process_list, as parsed from parameter 3
process_list == <<"Clear Creek", "Mill Run", "Dry Fork">>

\* the event fields copy_cross_sections adds, in its order
add_fields ==
    <<"WSE_50pct", "WSE_20pct", "WSE_10pct", "WSE_04pct", "WSE_02pct",
      "WSE_01plus", "WSE_01min", "WSE_01pct", "WSE_0_2pct", "WSE_0_5pct">>

\* events, as parsed from parameter 4: the ten event fields
events == add_fields

\* the value CalculateField writes into every new event field
Placeholder == -8888
\* the other value make_tin's query excludes
NullWsel == -9999
\* the value a shapefile gives a DOUBLE field that was added and never calculated
ShapefileDefault == 0

\* S_XS: the cross-section lines of all streams; the two lines of Dry Fork
\* carry the same station value
xs_fc ==
    << [XS_LN_ID |-> "A", WTR_NM |-> "Clear Creek", STREAM_STN |-> 1],
       [XS_LN_ID |-> "C", WTR_NM |-> "Clear Creek", STREAM_STN |-> 3],
       [XS_LN_ID |-> "B", WTR_NM |-> "Clear Creek", STREAM_STN |-> 2],
       [XS_LN_ID |-> "G", WTR_NM |-> "Clear Creek", STREAM_STN |-> 4],
       [XS_LN_ID |-> "D", WTR_NM |-> "Mill Run", STREAM_STN |-> 2],
       [XS_LN_ID |-> "E", WTR_NM |-> "Mill Run", STREAM_STN |-> 3],
       [XS_LN_ID |-> "H", WTR_NM |-> "Dry Fork", STREAM_STN |-> 2],
       [XS_LN_ID |-> "I", WTR_NM |-> "Dry Fork", STREAM_STN |-> 2] >>

Rec(id, typ, wsel, eval) ==
    [XS_LN_ID |-> id, EVENT_TYP |-> typ, WSEL |-> wsel, EVAL_LN |-> eval]

\* L_XS_ELEV of the pipeline specification
BaseTable ==
    << Rec("A", "01pct", 2, "F"),
       Rec("B", "01pct", NullWsel, "F"),
       Rec("C", "1 Percent Chance", 3, "F"),
       Rec("A", "10pct", 1, "F"),
       Rec("B", "10 Percent Chance", 2, "F"),
       Rec("C", "10pct", 3, "F"),
       Rec("A", "01plus", 3, "F"),
       Rec("C", "1 Percent Plus Chance", 2, "F"),
       Rec("A", "02pct", 3, "F"),
       Rec("B", "2 Percent Chance", NullWsel, "F"),
       Rec("G", "10pct", 1, "F"),
       Rec("G", "01pct", 1, "T"),
       Rec("D", "01pct", 3, "F"),
       Rec("E", "01pct", 3, "F"),
       Rec("D", "10pct", 1, "F"),
       Rec("E", "10pct", 3, "F"),
       Rec("H", "20pct", 2, "F"),
       Rec("I", "20 Percent Chance", 2, "F") >>

\* Coordinates along the valley are in units of a quarter of cell_size: half
\* a cell is HalfCell units, and cell c is centred at Centre(c) and reaches
\* HalfCell to either side.
HalfCell == 2
Centre(c) == 2 * HalfCell * c

\* S_FLD_HAZ_AR: the hazard zones, each on an interval of the valley.  The
\* AE zone ends inside cell 2, short of its centre; the 0.2% zone goes on from
\* there to a point past the centre of cell 3.
flooding_fc ==
    << [FLD_ZONE |-> "AE", ZONE_SUBTY |-> "", part |-> <<2, 7>>],
       [FLD_ZONE |-> "X", ZONE_SUBTY |-> "0500", part |-> <<7, 13>>],
       [FLD_ZONE |-> "X", ZONE_SUBTY |-> "", part |-> <<13, 18>>] >>

\* the terrain model: ground elevation of each cell
dem == [c \in Cells |-> IF c = 2 THEN 3 ELSE 1]

\* ------------------------------------------------------------- names and paths
\* arcpy.ValidateTableName on the stream names of process_list
ValidateTableName(name) ==
    CASE name = "Clear Creek" -> "Clear_Creek"
      [] name = "Mill Run" -> "Mill_Run"
      [] name = "Dry Fork" -> "Dry_Fork"
      [] OTHER -> name

\* str.lower on the names the script lowers
Lower(s) ==
    CASE s = "Clear_Creek" -> "clear_creek"
      [] s = "Mill_Run" -> "mill_run"
      [] s = "Dry_Fork" -> "dry_fork"
      [] s = "WSE_50pct" -> "wse_50pct"
      [] s = "WSE_20pct" -> "wse_20pct"
      [] s = "WSE_10pct" -> "wse_10pct"
      [] s = "WSE_04pct" -> "wse_04pct"
      [] s = "WSE_02pct" -> "wse_02pct"
      [] s = "WSE_01plus" -> "wse_01plus"
      [] s = "WSE_01min" -> "wse_01min"
      [] s = "WSE_01pct" -> "wse_01pct"
      [] s = "WSE_0_2pct" -> "wse_0_2pct"
      [] s = "WSE_0_5pct" -> "wse_0_5pct"
      [] OTHER -> s

\* A path below the workspace is <<folder, stem, extension>>; the workspace
\* itself is folder "".  The file system compares names without regard to
\* case (the script's paths are Windows paths), so a file is found under the
\* key of its path.
Key(p) == <<Lower(p[1]), Lower(p[2]), p[3]>>

Root(stem, ext) == <<"", stem, ext>>
Folder(name) == <<name, "", "">>

\* ------------------------------------------------------------- partial functions
Put(f, k, v) == (k :> v) @@ f
Drop(f, k) == [x \in DOMAIN f \ {k} |-> f[x]]

Range(s) == {s[i] : i \in DOMAIN s}

\* the cells whose centre lies in one of a set of intervals
CellsOf(parts) ==
    UNION {{c \in Cells : p[1] <= Centre(c) /\ Centre(c) <= p[2]} : p \in parts}

VARIABLES
    files,        \* the workspace: key of a path -> the dataset stored there
    layers,       \* names of the layers, views and in_memory datasets of the session
    overwriteOutput, \* arcpy.env.overwriteOutput of the session
    elev_table,   \* L_XS_ELEV
    mosaic,       \* the mosaic flag of the current invocation
    pc,           \* where main is: [stage, si, ei]
    status,       \* "running", "done" (main returned) or "failed" (an exception left main)
    runs,         \* invocations of main so far
    files0,       \* the workspace as it was when the current invocation started
    ncalls,       \* the calls main has made in the current invocation
    lastCall,     \* the function main called last: its arguments, operations, messages
    round         \* round_rasters.py: its arguments, its loop position and its outputs

vars == <<files, layers, overwriteOutput, elev_table, mosaic, pc, status, runs,
          files0, ncalls, lastCall, round>>

\* ------------------------------------------------------------- the engine
\* st.ctl is "run" while statements execute, "return" after a return and
\* "raise" once an engine call has failed.  A call fails when it is the
\* fp-th engine call of the function (an execution failure of the engine) or
\* when its own preconditions fail.  Exists, Delete, AddMessage and
\* os.path.join never fail.

NewSt(fp) ==
    [files |-> files, layers |-> layers, ops |-> <<>>, msgs |-> <<>>,
     n |-> 0, fp |-> fp, ctl |-> "run"]

Exists(st, p) == Key(p) \in DOMAIN st.files
LayerExists(st, name) == name \in st.layers

Raise(st) == [st EXCEPT !.ctl = "raise"]
Return(st) == IF st.ctl = "run" THEN [st EXCEPT !.ctl = "return"] ELSE st

AddMessage(st, m) ==
    IF st.ctl = "run" THEN [st EXCEPT !.msgs = Append(@, m)] ELSE st

\* An engine call named op with arguments a, whose own precondition is ok:
\* counted; it fails when it is the fp-th call or ok is false, and is logged
\* otherwise.  The caller applies the call's effect when the result still runs.
Enter(st, op, a, ok) ==
    IF st.ctl # "run" THEN st
    ELSE LET s1 == [st EXCEPT !.n = @ + 1]
         IN  IF s1.n = s1.fp \/ ~ok THEN Raise(s1)
             ELSE [s1 EXCEPT !.ops = Append(@, [op |-> op, a |-> a])]

Running(st) == st.ctl = "run"

\* an output dataset may be written when it is absent or overwriting is on
CanWrite(st, p) == overwriteOutput \/ ~Exists(st, p)
CanMakeLayer(st, name) == overwriteOutput \/ ~LayerExists(st, name)

WriteFile(st, p, content) ==
    [st EXCEPT !.files = Put(@, Key(p), content)]

\* arcpy.management.Delete in a finally block: executed whatever st.ctl is;
\* a missing dataset is a warning only
FinallyDeleteFile(st, p) == [st EXCEPT !.files = Drop(@, Key(p))]
FinallyDeleteLayer(st, name) == [st EXCEPT !.layers = @ \ {name}]

\* arcpy.management.Delete in the body of a function
DeleteFile(st, p) == IF Running(st) THEN FinallyDeleteFile(st, p) ELSE st
DeleteLayer(st, name) == IF Running(st) THEN FinallyDeleteLayer(st, name) ELSE st

\* arcpy.management.MakeFeatureLayer / MakeTableView on an existing source
MakeFeatureLayer(st, srcExists, name) ==
    LET s == Enter(st, "MakeFeatureLayer", <<name>>,
                   srcExists /\ CanMakeLayer(st, name))
    IN  IF Running(s) THEN [s EXCEPT !.layers = @ \cup {name}] ELSE s

\* ------------------------------------------------------------- create_flooding_clippers
\* the where clause of the 500-year event used for both events
FloodQuery_Mut(event, row) ==
    \/ row.ZONE_SUBTY \in {"0500", "0.2 PCT ANNUAL CHANCE FLOOD HAZARD"}
    \/ row.FLD_ZONE \in {"AE", "A", "AH"}

\* the where clause of the flooding layer for an event ("100 year", "500 year")
FloodQuery(event, row) ==
    IF event = "100 year" THEN row.FLD_ZONE \in {"AE", "A", "AH"}
    ELSE \/ row.ZONE_SUBTY \in {"0500", "0.2 PCT ANNUAL CHANCE FLOOD HAZARD"}
         \/ row.FLD_ZONE \in {"AE", "A", "AH"}

buffered_flooding(event) ==
    IF event = "100 year" THEN Root("flooding_1pct", ".shp")
    ELSE Root("flooding_0_2pct", ".shp")

projected_flooding == Root("flooding_projected", ".shp")

\* Buffer by buffer_size * 0.50 with dissolve ALL: every part reaches half a
\* cell further on either side
Buffer(parts) == {<<p[1] - HalfCell, p[2] + HalfCell>> : p \in parts}

create_flooding_clippers(st0, event) ==
    LET out == buffered_flooding(event)
        sel == {r.part : r \in {x \in Range(flooding_fc) : FloodQuery(event, x)}}
    IN  IF Exists(st0, out)
        THEN Return(AddMessage(st0, <<"flooding clipper already exists", event>>))
        ELSE
        LET s1 == MakeFeatureLayer(st0, TRUE, "flood_lyr")
            s2 == LET s == Enter(s1, "Project", <<"flood_lyr", projected_flooding>>,
                                 CanWrite(s1, projected_flooding))
                  IN  IF Running(s)
                      THEN WriteFile(s, projected_flooding,
                                     [kind |-> "poly", name |-> projected_flooding,
                                      parts |-> sel])
                      ELSE s
            s3 == LET s == Enter(s2, "Buffer", <<projected_flooding, out>>,
                                 CanWrite(s2, out))
                  IN  IF Running(s)
                      THEN WriteFile(s, out, [kind |-> "poly", name |-> out,
                                              parts |-> Buffer(sel)])
                      ELSE s
        IN  \* finally: projected_flooding is unbound when MakeFeatureLayer
            \* failed, and the first Delete then raises before the second
            IF Running(s1)
            THEN FinallyDeleteLayer(FinallyDeleteFile(s3, projected_flooding),
                                    "flood_lyr")
            ELSE s3

\* ------------------------------------------------------------- make_folder
make_folder(st0, folder_name) ==
    LET new_folder_name == Lower(ValidateTableName(folder_name))
    IN  IF ~Exists(st0, Folder(new_folder_name))
        THEN LET s == Enter(st0, "CreateFolder", <<new_folder_name>>, TRUE)
             IN  IF Running(s)
                 THEN WriteFile(s, Folder(new_folder_name),
                                [kind |-> "folder", name |-> Folder(new_folder_name)])
                 ELSE s
        ELSE AddMessage(st0, <<"Folder already exists">>)

\* ------------------------------------------------------------- copy_cross_sections
xs_elev_path(water_name) ==
    <<Lower(ValidateTableName(water_name)), "xs_elev", ".shp">>

\* AddField: every row gets the field with the shapefile's default value
AddField(st, p, field) ==
    LET s == Enter(st, "AddField", <<field>>, Exists(st, p))
    IN  IF ~Running(s) THEN s
        ELSE LET fc == s.files[Key(p)]
                 rows == [i \in DOMAIN fc.rows |->
                            [fc.rows[i] EXCEPT !.wse = Put(@, field, ShapefileDefault)]]
             IN  WriteFile(s, p, [fc EXCEPT !.rows = rows, !.flds = @ \cup {field}])

\* CalculateField with the expression "-8888"
CalculateField(st, p, field) ==
    LET s == Enter(st, "CalculateField", <<field>>, Exists(st, p))
    IN  IF ~Running(s) THEN s
        ELSE LET fc == s.files[Key(p)]
                 rows == [i \in DOMAIN fc.rows |->
                            [fc.rows[i] EXCEPT !.wse = Put(@, field, Placeholder)]]
             IN  WriteFile(s, p, [fc EXCEPT !.rows = rows])

RECURSIVE AddFields(_, _, _)
\* the loop over add_fields, from its i-th field on; an exception ends it
AddFields(st, p, i) ==
    IF ~Running(st) \/ i > Len(add_fields) THEN st
    ELSE AddFields(CalculateField(AddField(st, p, add_fields[i]), p, add_fields[i]),
                   p, i + 1)

copy_cross_sections(st0, water_name) ==
    LET xs_elev_fc == xs_elev_path(water_name)
        body ==
            IF Exists(st0, xs_elev_fc)
            THEN Return(AddMessage(st0, <<"The xs_elev.shp already exists">>))
            ELSE
            LET s1 == MakeFeatureLayer(st0, TRUE, "xs_select")
                sel == SelectSeq(xs_fc, LAMBDA r : r.WTR_NM = water_name)
                s2 == LET s == Enter(s1, "Project", <<"xs_select", xs_elev_fc>>,
                                     /\ CanWrite(s1, xs_elev_fc)
                                     /\ Exists(s1, Folder(xs_elev_fc[1])))
                      IN  IF Running(s)
                          THEN WriteFile(s, xs_elev_fc,
                                 [kind |-> "fc", name |-> xs_elev_fc, flds |-> {},
                                  rows |-> [i \in DOMAIN sel |->
                                     [XS_LN_ID |-> sel[i].XS_LN_ID,
                                      STREAM_STN |-> sel[i].STREAM_STN,
                                      wse |-> <<>>]]])
                          ELSE s
                s3 == MakeFeatureLayer(s2, Exists(s2, xs_elev_fc), "xs_layer")
            IN  AddFields(s3, xs_elev_fc, 1)
    IN  FinallyDeleteLayer(FinallyDeleteLayer(body, "xs_select"), "xs_layer")

\* ------------------------------------------------------------- create_elev_values_table
\* the cursor's fields after XS_LN_ID, in the order of update_row[1..10]
fields ==
    <<"WSE_50pct", "WSE_20pct", "WSE_10pct", "WSE_04pct", "WSE_02pct",
      "WSE_01plus", "WSE_01min", "WSE_01pct", "WSE_0_2pct", "WSE_0_5pct">>

\* the tuples with the short code of the 1% event in the 1%-minus test
Synonyms_Mut(i) ==
    CASE i = 1 -> {"50pct", "50 Percent Chance"}
      [] i = 2 -> {"20pct", "20 Percent Chance"}
      [] i = 3 -> {"10pct", "10 Percent Chance"}
      [] i = 4 -> {"04pct", "4 Percent Chance"}
      [] i = 5 -> {"02pct", "2 Percent Chance"}
      [] i = 6 -> {"01plus", "1 Percent Plus Chance"}
      [] i = 7 -> {"01pct", "1 Percent Minus Chance"}
      [] i = 8 -> {"01pct", "1 Percent Chance"}
      [] i = 9 -> {"0_2pct", "0.2 Percent Chance"}
      [] i = 10 -> {"0_5pct", "0.5 Percent Chance"}

\* the event-type texts the i-th if statement accepts
Synonyms(i) ==
    CASE i = 1 -> {"50pct", "50 Percent Chance"}
      [] i = 2 -> {"20pct", "20 Percent Chance"}
      [] i = 3 -> {"10pct", "10 Percent Chance"}
      [] i = 4 -> {"04pct", "4 Percent Chance"}
      [] i = 5 -> {"02pct", "2 Percent Chance"}
      [] i = 6 -> {"01plus", "1 Percent Plus Chance"}
      [] i = 7 -> {"01minus", "1 Percent Minus Chance"}
      [] i = 8 -> {"01pct", "1 Percent Chance"}
      [] i = 9 -> {"0_2pct", "0.2 Percent Chance"}
      [] i = 10 -> {"0_5pct", "0.5 Percent Chance"}

\* update_row after the ten if statements on one search row
AssignEvent(update_row, event_type, wsel) ==
    [f \in DOMAIN update_row |->
        IF \E i \in DOMAIN fields : fields[i] = f /\ event_type \in Synonyms(i)
        THEN wsel ELSE update_row[f]]

RemoveAt(s, i) == SubSeq(s, 1, i - 1) \o SubSeq(s, i + 1, Len(s))

\* the test that sends a search row to deleteRow
IsEvalLine_Mut(search_row) == search_row.EVAL_LN = "Y"

IsEvalLine(search_row) == search_row.EVAL_LN = "T"

RECURSIVE JoinRecords(_, _, _, _, _, _, _)
\* The inner loop: the search rows recs still to visit for the row at index i
\* of the feature class at p, update_row being the cursor's buffer.  deleted
\* tells that deleteRow has removed the row; what updateRow or deleteRow do
\* on a removed row is not defined by the cursor, afterDelete gives the
\* outcome ("noop" or "raise").  The result is <<st, deleted>>.
JoinRecords(st, p, i, update_row, recs, deleted, afterDelete) ==
    IF recs = <<>> \/ ~Running(st) THEN <<st, deleted>>
    ELSE
    LET search_row == Head(recs)
        row == AssignEvent(update_row, search_row.EVENT_TYP, search_row.WSEL)
        fc == st.files[Key(p)]
        next ==
            IF deleted
            THEN IF afterDelete = "raise" THEN Raise(st) ELSE st
            ELSE IF IsEvalLine(search_row)
            THEN LET s == Enter(st, "deleteRow", <<fc.rows[i].XS_LN_ID>>, TRUE)
                 IN  IF Running(s)
                     THEN WriteFile(s, p, [fc EXCEPT !.rows = RemoveAt(@, i)])
                     ELSE s
            ELSE LET s == Enter(st, "updateRow", <<fc.rows[i].XS_LN_ID>>, TRUE)
                 IN  IF Running(s)
                     THEN WriteFile(s, p, [fc EXCEPT !.rows[i].wse = row])
                     ELSE s
    IN  JoinRecords(next, p, i, row, Tail(recs),
                    deleted \/ (IsEvalLine(search_row) /\ Running(next)),
                    afterDelete)

RECURSIVE JoinRows(_, _, _, _)
\* The outer loop, from the row at index i of the feature class at p on.
JoinRows(st, p, i, afterDelete) ==
    IF ~Running(st) THEN st
    ELSE IF i > Len(st.files[Key(p)].rows) THEN st
    ELSE
    LET update_row == st.files[Key(p)].rows[i]
        xs_ln_id == update_row.XS_LN_ID
        recs == SelectSeq(elev_table, LAMBDA r : r.XS_LN_ID = xs_ln_id)
        res == JoinRecords(st, p, i, update_row.wse, recs, FALSE, afterDelete)
    IN  JoinRows(res[1], p, IF res[2] THEN i ELSE i + 1, afterDelete)

create_elev_values_table(st0, water_name, afterDelete) ==
    LET xs_elev_fc == xs_elev_path(water_name)
        s1 == MakeFeatureLayer(st0, Exists(st0, xs_elev_fc), "xs_layer")
        s2 == MakeFeatureLayer(s1, TRUE, "elev_layer")
        \* the cursor needs every field it names
        s3 == Enter(s2, "UpdateCursor", <<"xs_layer">>,
                    /\ Exists(s2, xs_elev_fc)
                    /\ Range(fields) \subseteq s2.files[Key(xs_elev_fc)].flds)
        s4 == JoinRows(s3, xs_elev_fc, 1, afterDelete)
    IN  FinallyDeleteLayer(FinallyDeleteLayer(s4, "xs_layer"), "elev_layer")

\* ------------------------------------------------------------- create_polygon
Min(S) == CHOOSE x \in S : \A y \in S : x <= y
Max(S) == CHOOSE x \in S : \A y \in S : y <= x

\* MinimumBoundingGeometry, CONVEX_HULL of ALL the lines: the interval they
\* span, the line of station s lying at the centre of cell s
ConvexHull(rows) ==
    LET stn == {r.STREAM_STN : r \in Range(rows)}
    IN  <<Centre(Min(stn)), Centre(Max(stn))>>

create_polygon(st0, in_xs_path, station_1, station_2, out_fc) ==
    LET s1 == MakeFeatureLayer(st0, Exists(st0, in_xs_path), "xs_sel")
        sel == SelectSeq(st0.files[Key(in_xs_path)].rows,
                         LAMBDA r : r.STREAM_STN \in {station_1, station_2})
        s2 == LET s == Enter(s1, "MinimumBoundingGeometry", <<station_1, station_2>>,
                             CanMakeLayer(s1, "in_memory\\clip_boundary"))
              IN  IF Running(s)
                  THEN [s EXCEPT !.layers = @ \cup {"in_memory\\clip_boundary"}]
                  ELSE s
        s3 == LET s == Enter(s2, "Append", <<station_1, station_2>>, Exists(s2, out_fc))
              IN  IF Running(s)
                  THEN WriteFile(s, out_fc,
                         [s.files[Key(out_fc)] EXCEPT !.feats = Append(@, ConvexHull(sel))])
                  ELSE s
    IN  FinallyDeleteLayer(FinallyDeleteLayer(s3, "in_memory\\clip_boundary"), "xs_sel")

\* ------------------------------------------------------------- create_stream_clippers
RECURSIVE Distinct(_)
\* the loop that appends a station unless it is in station_list already
Distinct(s) ==
    IF s = <<>> THEN <<>>
    ELSE LET d == Distinct(SubSeq(s, 1, Len(s) - 1))
         IN  IF s[Len(s)] \in Range(d) THEN d ELSE Append(d, s[Len(s)])

\* the station list left in cursor order
sorted_Mut(s) == s

RECURSIVE sorted(_)
\* sorted(station_list), ascending
sorted(s) ==
    IF s = <<>> THEN <<>>
    ELSE LET m == Min(Range(s))
         IN  <<m>> \o sorted(SelectSeq(s, LAMBDA x : x # m))

RECURSIVE PolygonLoop(_, _, _, _, _)
\* the loop over range(0, len(station_list) - 1), from index station on
\* (indexes are 1-based here)
PolygonLoop(st, xs_layer, station_list, station, clipper_temp) ==
    IF station > Len(station_list) - 1 THEN st
    ELSE PolygonLoop(create_polygon(st, xs_layer, station_list[station],
                                    station_list[station + 1], clipper_temp),
                     xs_layer, station_list, station + 1, clipper_temp)

clipper_path(water_name) ==
    <<Lower(ValidateTableName(water_name)), "clipper", ".shp">>

clipper_temp_path == Root("clipper_temp", ".shp")

\* create_stream_clippers from "Create a temporary shapefile" on
build_stream_clipper(st0, water_name) ==
    LET clipper == clipper_path(water_name)
        xs_layer == xs_elev_path(water_name)
        s1 == LET s == Enter(st0, "CreateFeatureclass", <<clipper_temp_path>>,
                             CanWrite(st0, clipper_temp_path))
              IN  IF Running(s)
                  THEN WriteFile(s, clipper_temp_path,
                                 [kind |-> "polyfc", name |-> clipper_temp_path,
                                  feats |-> <<>>])
                  ELSE s
        s2 == Enter(s1, "SearchCursor", <<xs_layer>>, Exists(s1, xs_layer))
        rows == IF Exists(st0, xs_layer) THEN st0.files[Key(xs_layer)].rows ELSE <<>>
        station_list ==
            sorted(Distinct([i \in DOMAIN rows |-> rows[i].STREAM_STN]))
        s3 == PolygonLoop(s2, xs_layer, station_list, 1, clipper_temp_path)
        s4 == LET s == Enter(s3, "Dissolve", <<clipper_temp_path, clipper>>,
                             CanWrite(s3, clipper))
              IN  IF Running(s)
                  THEN WriteFile(s, clipper,
                         [kind |-> "poly", name |-> clipper,
                          parts |-> Range(s.files[Key(clipper_temp_path)].feats)])
                  ELSE s
    IN  DeleteFile(s4, clipper_temp_path)

create_stream_clippers_Mut(st0, water_name) ==
    build_stream_clipper(st0, water_name)

create_stream_clippers(st0, water_name) ==
    IF Exists(st0, clipper_path(water_name))
    THEN Return(AddMessage(st0, <<"Clipper.shp already exists">>))
    ELSE build_stream_clipper(st0, water_name)

\* ------------------------------------------------------------- make_tin
tin_path(water_name, ev) ==
    <<Lower(ValidateTableName(water_name)), Lower(ev), ".tin">>

\* the query with one of the two excluded values forgotten
TinQuery_MutNull(rows, ev) ==
    SelectSeq(rows, LAMBDA r : r.wse[ev] \notin {Placeholder})

TinQuery_MutPlaceholder(rows, ev) ==
    SelectSeq(rows, LAMBDA r : r.wse[ev] \notin {NullWsel})

\* the rows of the layer made with the query "<event> NOT IN (-9999, -8888)"
TinQuery(rows, ev) ==
    SelectSeq(rows, LAMBDA r : r.wse[ev] \notin {NullWsel, Placeholder})

make_tin(st0, wn, ev) ==
    LET xs_fc_path == xs_elev_path(wn)
        out_tin == tin_path(wn, ev)
        s0 == IF LayerExists(st0, "xs_lyr") THEN DeleteLayer(st0, "xs_lyr") ELSE st0
        \* the where clause needs the event's field
        s1 == MakeFeatureLayer(s0, /\ Exists(s0, xs_fc_path)
                                   /\ ev \in s0.files[Key(xs_fc_path)].flds,
                               "xs_lyr")
        xs_layer == IF Running(s1)
                    THEN TinQuery(s1.files[Key(xs_fc_path)].rows, ev) ELSE <<>>
        s2 == Enter(s1, "GetCount", <<"xs_lyr">>, TRUE)
        s3 == IF ~Running(s2) THEN s2
              ELSE IF Len(xs_layer) > 1
              THEN LET s == Enter(s2, "CreateTin", <<out_tin>>, CanWrite(s2, out_tin))
                   IN  IF Running(s)
                       THEN WriteFile(s, out_tin,
                              [kind |-> "tin", name |-> out_tin,
                               lines |-> {[XS_LN_ID |-> r.XS_LN_ID,
                                           STREAM_STN |-> r.STREAM_STN,
                                           z |-> r.wse[ev]] : r \in Range(xs_layer)}])
                       ELSE s
              ELSE AddMessage(s2, <<"There are no WSE values for", ev>>)
    IN  FinallyDeleteLayer(FinallyDeleteLayer(s3, "xs_lyr"), "clipper_lyr")

\* ------------------------------------------------------------- create_full_with_raster
\* TinRaster: the surface spans the cells between the outermost lines of the
\* TIN; a cell takes the elevation of the nearest line at or below it
TinRaster(lines) ==
    LET stn == {l.STREAM_STN : l \in lines}
    IN  [c \in {x \in Cells : Min(stn) <= x /\ x <= Max(stn)} |->
            LET at == Max({s \in stn : s <= c})
            IN  Max({l.z : l \in {k \in lines : k.STREAM_STN = at}})]

\* ExtractByMask, INSIDE: the cells of the raster inside the mask polygon
ExtractByMask(cell, parts) == [c \in DOMAIN cell \cap CellsOf(parts) |-> cell[c]]

\* raster.save(p)
Save(st, p, cell) ==
    LET s == Enter(st, "save", <<p>>, CanWrite(st, p) /\ Exists(st, Folder(p[1])))
    IN  IF Running(s)
        THEN WriteFile(s, p, [kind |-> "raster", name |-> p, cell |-> cell])
        ELSE s

create_full_with_raster(st0, wn, ev) ==
    LET table_name == Lower(ValidateTableName(wn))
        tin == <<table_name, ev, ".tin">>
        clipper == <<table_name, "clipper", ".shp">>
        temp_wsel == <<table_name, ev, "_temp.tif">>
        out_wsel == <<table_name, ev, "_full.tif">>
        body ==
            IF Exists(st0, out_wsel)
            THEN Return(AddMessage(st0, <<"Raster already exists", ev>>))
            ELSE IF ~Exists(st0, tin)
            THEN Return(AddMessage(st0, <<"There are no WSE values for", ev>>))
            ELSE
            LET s1 == LET s == Enter(st0, "TinRaster", <<tin, temp_wsel>>,
                                     CanWrite(st0, temp_wsel))
                      IN  IF Running(s)
                          THEN WriteFile(s, temp_wsel,
                                 [kind |-> "raster", name |-> temp_wsel,
                                  cell |-> TinRaster(s.files[Key(tin)].lines)])
                          ELSE s
                s2 == MakeFeatureLayer(s1, Exists(s1, clipper), "clipper_lyr")
                s3 == Enter(s2, "ExtractByMask", <<temp_wsel, clipper>>, TRUE)
            IN  IF Running(s3)
                THEN Save(s3, out_wsel,
                          ExtractByMask(s3.files[Key(temp_wsel)].cell,
                                        s3.files[Key(clipper)].parts))
                ELSE s3
    IN  FinallyDeleteLayer(FinallyDeleteFile(FinallyDeleteFile(body, temp_wsel), tin),
                           "clipper_lyr")

\* ------------------------------------------------------------- clip_raster
\* the tuple of 0.2% events with WSE_01min left out
flooding_Mut(ev) ==
    IF ev \in {"WSE_01plus", "WSE_0_2pct", "WSE_0_5pct"}
    THEN Root("flooding_0_2pct", ".shp")
    ELSE Root("flooding_1pct", ".shp")

\* the flooding clipper clip_raster masks an event's raster with
flooding(ev) ==
    IF ev \in {"WSE_01plus", "WSE_01min", "WSE_0_2pct", "WSE_0_5pct"}
    THEN Root("flooding_0_2pct", ".shp")
    ELSE Root("flooding_1pct", ".shp")

clip_raster(st0, wn, ev) ==
    LET table_name == ValidateTableName(wn)
        full_raster == <<Lower(table_name), ev, "_full.tif">>
        clipped_raster == <<table_name, ev, ".tif">>
    IN  IF Exists(st0, clipped_raster)
        THEN Return(AddMessage(st0, <<"The clipped raster already exists", ev>>))
        ELSE IF ~Exists(st0, full_raster)
        THEN Return(AddMessage(st0, <<"There are no WSE values for", ev>>))
        ELSE
        LET s1 == MakeFeatureLayer(st0, Exists(st0, flooding(ev)), "flooding_layer")
            s2 == Enter(s1, "ExtractByMask", <<full_raster, flooding(ev)>>, TRUE)
            s3 == IF Running(s2)
                  THEN Save(s2, clipped_raster,
                            ExtractByMask(s2.files[Key(full_raster)].cell,
                                          s2.files[Key(flooding(ev))].parts))
                  ELSE s2
        IN  DeleteLayer(DeleteFile(s3, full_raster), "flooding_layer")

\* ------------------------------------------------------------- extract_raster_from_dem
\* the comparison written as "not above the terrain"
SetNull_Mut(cell) == [c \in {x \in DOMAIN cell : cell[x] > dem[x]} |-> cell[c]]

\* SetNull(temp < dem, temp): the cells below the terrain become no-data
SetNull(cell) == [c \in {x \in DOMAIN cell : ~(cell[x] < dem[x])} |-> cell[c]]

\* the function without its test that the raster exists: Rename fails on the
\* missing raster
extract_raster_from_dem_Mut(st0, wn, ev) ==
    LET table_name == ValidateTableName(wn)
        full_raster == <<Lower(table_name), ev, ".tif">>
        temp_raster == <<table_name, ev, "_temp.tif">>
        s1 == LET s == Enter(st0, "Rename", <<full_raster, temp_raster>>,
                             Exists(st0, full_raster) /\ CanWrite(st0, temp_raster))
              IN  IF Running(s)
                  THEN WriteFile(FinallyDeleteFile(s, full_raster), temp_raster,
                         [s.files[Key(full_raster)] EXCEPT !.name = temp_raster])
                  ELSE s
        s2 == Enter(s1, "SetNull", <<temp_raster>>, TRUE)
        s3 == IF Running(s2)
              THEN Save(s2, full_raster, SetNull(s2.files[Key(temp_raster)].cell))
              ELSE s2
    IN  DeleteFile(s3, temp_raster)

extract_raster_from_dem(st0, wn, ev) ==
    LET table_name == ValidateTableName(wn)
        full_raster == <<Lower(table_name), ev, ".tif">>
        temp_raster == <<table_name, ev, "_temp.tif">>
    IN  IF ~Exists(st0, full_raster)
        THEN Return(AddMessage(st0, <<"There are no WSE values for", ev>>))
        ELSE
        LET s1 == LET s == Enter(st0, "Rename", <<full_raster, temp_raster>>,
                                 CanWrite(st0, temp_raster))
                  IN  IF Running(s)
                      THEN WriteFile(FinallyDeleteFile(s, full_raster), temp_raster,
                             [s.files[Key(full_raster)] EXCEPT !.name = temp_raster])
                      ELSE s
            s2 == Enter(s1, "SetNull", <<temp_raster>>, TRUE)
            s3 == IF Running(s2)
                  THEN Save(s2, full_raster, SetNull(s2.files[Key(temp_raster)].cell))
                  ELSE s2
        IN  DeleteFile(s3, temp_raster)

\* ------------------------------------------------------------- mosaic_wse_grid
target_raster(ev) == Root(ev, ".tif")

\* "event in filename" for a file stored under the name <<folder, stem, ext>>:
\* no extension and no other stem contains an event's text
InFilename(ev, name) == name[2] = ev

\* the rasters arcpy.da.Walk finds (type TIF) whose name contains the event
raster_list(st, ev) ==
    {k \in DOMAIN st.files :
        st.files[k].kind = "raster" /\ InFilename(ev, st.files[k].name)}

\* Mosaic with mosaic_type FIRST: the target keeps the cells it has
MosaicMax_Mut(st, ks, cell) ==
    LET dom == DOMAIN cell \cup UNION {DOMAIN st.files[k].cell : k \in ks}
    IN  [c \in dom |->
            IF c \in DOMAIN cell THEN cell[c]
            ELSE Max({st.files[k].cell[c] : k \in {x \in ks : c \in DOMAIN st.files[x].cell}})]

\* Mosaic with mosaic_type MAXIMUM of the rasters at keys ks into cell
MosaicMax(st, ks, cell) ==
    LET dom == DOMAIN cell \cup UNION {DOMAIN st.files[k].cell : k \in ks}
    IN  [c \in dom |->
            Max((IF c \in DOMAIN cell THEN {cell[c]} ELSE {})
                \cup {st.files[k].cell[c] : k \in {x \in ks : c \in DOMAIN st.files[x].cell}})]

\* mosaic_wse_grid from "Copy the first raster as the target raster" on; first
\* is the raster the walk found first (any of the list)
merge_rasters(s0, ev, first, list) ==
    LET target == target_raster(ev)
        s1 == LET s == Enter(s0, "Copy", <<first, target>>, CanWrite(s0, target))
              IN  IF Running(s)
                  THEN WriteFile(s, target,
                                 [s.files[first] EXCEPT !.name = target])
                  ELSE s
        s2 == Enter(s1, "Mosaic", <<target, list>>, TRUE)
    IN  IF Running(s2)
        THEN WriteFile(s2, target,
               [kind |-> "raster", name |-> target,
                cell |-> MosaicMax(s2, list, s2.files[Key(target)].cell)])
        ELSE s2

\* the function without its test of the empty list: raster_list[0] raises
mosaic_wse_grid_Mut(st0, ev, first) ==
    LET target == target_raster(ev)
        s0 == IF Exists(st0, target) THEN DeleteFile(st0, target) ELSE st0
        list == raster_list(s0, ev)
    IN  IF list = {} THEN Raise(s0) ELSE merge_rasters(s0, ev, first, list)

\* first is <<>> when the list is empty
mosaic_wse_grid(st0, ev, first) ==
    LET target == target_raster(ev)
        s0 == IF Exists(st0, target) THEN DeleteFile(st0, target) ELSE st0
        list == raster_list(s0, ev)
    IN  IF list = {}
        THEN Return(AddMessage(s0, <<"There are no WSE values for", ev>>))
        ELSE merge_rasters(s0, ev, first, list)

\* ------------------------------------------------------------- main
\* the tuple of base events with WSE_0_2pct left out
BaseEvents_Mut == {"WSE_01pct"}

\* the events main does not pass to extract_raster_from_dem
BaseEvents == {"WSE_01pct", "WSE_0_2pct"}

\* the mosaic flag not tested
AfterStreams_Mut(q) ==
    IF Len(events) > 0 THEN [stage |-> "mosaic", si |-> q.si, ei |-> 1]
    ELSE [stage |-> "end", si |-> q.si, ei |-> q.ei]

\* the statement of main that follows the one at q when no exception occurs
AfterStreams(q) ==
    IF mosaic /\ Len(events) > 0 THEN [stage |-> "mosaic", si |-> q.si, ei |-> 1]
    ELSE [stage |-> "end", si |-> q.si, ei |-> q.ei]

AfterEvent(q) ==
    IF q.ei < Len(events) THEN [stage |-> "tin", si |-> q.si, ei |-> q.ei + 1]
    ELSE IF q.si < Len(process_list) THEN [stage |-> "folder", si |-> q.si + 1, ei |-> 0]
    ELSE AfterStreams(q)

NextPc(q) ==
    CASE q.stage = "flood1" -> [q EXCEPT !.stage = "flood2"]
      [] q.stage = "flood2" ->
            IF Len(process_list) > 0 THEN [stage |-> "folder", si |-> 1, ei |-> 0]
            ELSE AfterStreams(q)
      [] q.stage = "folder" -> [q EXCEPT !.stage = "copy"]
      [] q.stage = "copy" -> [q EXCEPT !.stage = "join"]
      [] q.stage = "join" -> [q EXCEPT !.stage = "clipper"]
      [] q.stage = "clipper" ->
            IF Len(events) > 0 THEN [stage |-> "tin", si |-> q.si, ei |-> 1]
            ELSE AfterEvent(q)
      [] q.stage = "tin" -> [q EXCEPT !.stage = "raster"]
      [] q.stage = "raster" -> [q EXCEPT !.stage = "clip"]
      [] q.stage = "clip" ->
            IF events[q.ei] \notin BaseEvents THEN [q EXCEPT !.stage = "dem"]
            ELSE AfterEvent(q)
      [] q.stage = "dem" -> AfterEvent(q)
      [] q.stage = "mosaic" ->
            IF q.ei < Len(events) THEN [q EXCEPT !.ei = q.ei + 1]
            ELSE [q EXCEPT !.stage = "end"]

water_name == process_list[pc.si]
event == events[pc.ei]

NoCall == [fn |-> "", water_name |-> "", event |-> "", ops |-> <<>>, msgs |-> <<>>,
           ctl |-> "", before |-> <<>>]

\* main's call of function fn has ended in st: an exception leaves main,
\* anything else continues with the next statement
Finish(fn, wn, ev, st) ==
    /\ files' = st.files
    /\ layers' = st.layers
    /\ lastCall' = [fn |-> fn, water_name |-> wn, event |-> ev, ops |-> st.ops,
                    msgs |-> st.msgs, ctl |-> st.ctl, before |-> files]
    /\ IF st.ctl = "raise"
       THEN status' = "failed" /\ pc' = pc
       ELSE /\ pc' = NextPc(pc)
            /\ status' = IF pc'.stage = "end" THEN "done" ELSE "running"
    /\ ncalls' = ncalls + 1
    /\ UNCHANGED <<overwriteOutput, elev_table, mosaic, runs, files0, round>>

At(stage) == status = "running" /\ pc.stage = stage

CreateFloodingClippers ==
    /\ At("flood1") \/ At("flood2")
    /\ \E fp \in 0..3 :
         LET ev == IF pc.stage = "flood1" THEN "100 year" ELSE "500 year"
         IN  Finish("create_flooding_clippers", "", ev,
                    create_flooding_clippers(NewSt(fp), ev))

MakeFolder ==
    /\ At("folder")
    /\ \E fp \in 0..1 :
         Finish("make_folder", water_name, "", make_folder(NewSt(fp), water_name))

CopyCrossSections ==
    /\ At("copy")
    /\ \E fp \in 0..(3 + 2 * Len(add_fields)) :
         Finish("copy_cross_sections", water_name, "",
                copy_cross_sections(NewSt(fp), water_name))

CreateElevValuesTable ==
    /\ At("join")
    /\ \E fp \in 0..(3 + Len(elev_table)), afterDelete \in {"noop", "raise"} :
         Finish("create_elev_values_table", water_name, "",
                create_elev_values_table(NewSt(fp), water_name, afterDelete))

CreateStreamClippers ==
    /\ At("clipper")
    /\ \E fp \in 0..(3 + 3 * NumCells) :
         Finish("create_stream_clippers", water_name, "",
                create_stream_clippers(NewSt(fp), water_name))

MakeTin ==
    /\ At("tin")
    /\ \E fp \in 0..3 :
         Finish("make_tin", water_name, event, make_tin(NewSt(fp), water_name, event))

CreateFullWithRaster ==
    /\ At("raster")
    /\ \E fp \in 0..4 :
         Finish("create_full_with_raster", water_name, event,
                create_full_with_raster(NewSt(fp), water_name, event))

ClipRaster ==
    /\ At("clip")
    /\ \E fp \in 0..3 :
         Finish("clip_raster", water_name, event,
                clip_raster(NewSt(fp), water_name, event))

ExtractRasterFromDem ==
    /\ At("dem")
    /\ \E fp \in 0..3 :
         Finish("extract_raster_from_dem", water_name, event,
                extract_raster_from_dem(NewSt(fp), water_name, event))

MosaicWseGrid ==
    /\ At("mosaic")
    /\ \E fp \in 0..2 :
         LET list == raster_list([files |-> Drop(files, Key(target_raster(event)))],
                                 event)
         IN  \E first \in (IF list = {} THEN {<<>>} ELSE list) :
                Finish("mosaic_wse_grid", "", event,
                       mosaic_wse_grid(NewSt(fp), event, first))

\* ------------------------------------------------------------- round_rasters.py
\* Elevations are fixed-point numbers, Scale units to one.
Scale == 1000000

RECURSIVE Pow10(_)
Pow10(n) == IF n = 0 THEN 1 ELSE 10 * Pow10(n - 1)

\* int(in_prec) of a command-line text: the integer it spells, or ValueError
int(t) ==
    CASE t = "-1" -> [ok |-> TRUE, v |-> -1]
      [] t = "0" -> [ok |-> TRUE, v |-> 0]
      [] t = "1" -> [ok |-> TRUE, v |-> 1]
      [] t = "2" -> [ok |-> TRUE, v |-> 2]
      [] t = "3" -> [ok |-> TRUE, v |-> 3]
      [] t = "4" -> [ok |-> TRUE, v |-> 4]
      [] t = "5" -> [ok |-> TRUE, v |-> 5]
      [] t = "6" -> [ok |-> TRUE, v |-> 6]
      [] t = "10" -> [ok |-> TRUE, v |-> 10]
      [] OTHER -> [ok |-> FALSE, v |-> 0]

\* the texts given as the precision argument
PrecisionTexts == {"-1", "0", "1", "2", "3", "4", "5", "6", "10", "2.5", "abc", ""}

\* sys.exit(1) inside determine_precision
PrecisionExit == [exit |-> 1, rounding_value |-> 0, multiplier |-> 0]

determine_precision(in_prec) ==
    LET parsed == int(in_prec)
        precision == parsed.v
    IN  IF ~parsed.ok THEN PrecisionExit
        ELSE IF precision < 0 THEN PrecisionExit
        ELSE IF precision > 5 THEN PrecisionExit
        ELSE IF precision > 0
             THEN [exit |-> 0,
                   rounding_value |-> (5 * Scale) \div Pow10(precision + 1),
                   multiplier |-> 1 * Pow10(precision)]
             ELSE [exit |-> 0, rounding_value |-> 0, multiplier |-> 0]

\* Int() of the engine truncates toward zero
Trunc(a, b) == IF a >= 0 THEN a \div b ELSE -((-a) \div b)

\* Float(Int((raster + rounding_value) * multiplier)) / multiplier; the engine
\* gives no-data where it divides by zero.  In fixed point, multiplying by
\* the multiplier and truncating is truncating to Scale / multiplier units.
RoundValue(v, rounding_value, multiplier) ==
    IF multiplier = 0
    THEN [nodata |-> TRUE, v |-> 0]
    ELSE LET unit == Scale \div multiplier
         IN  [nodata |-> FALSE, v |-> Trunc(v + rounding_value, unit) * unit]

\* the rasters the tool can be given: a file raster and a geodatabase raster
RasterInputs ==
    {[base |-> "a", extension |-> ".tif", v |-> 1234567],
     [base |-> "b", extension |-> "", v |-> -2500004]}

RoundIdle ==
    [status |-> "idle", rasters |-> <<>>, out_workspace |-> "Folder",
     precision |-> "", i |-> 1, written |-> <<>>,
     dp |-> [called |-> FALSE, exit |-> 0, rounding_value |-> 0, multiplier |-> 0]]

\* one iteration of the loop of main: the raster at position round.i.  The
\* engine fails at its fp-th modifying call (save, CopyRaster, Delete); main
\* catches the ExecuteError, logs it and returns.
RoundRaster ==
    /\ round.status = "running"
    /\ round.i <= Len(round.rasters)
    /\ \E fp \in 0..3 :
        LET raster == round.rasters[round.i]
            in_raster_name == <<raster.base, raster.extension>>
            gdb == round.out_workspace = "DEWorkspace"
            extension == IF ~gdb /\ raster.extension = "" THEN ".tif" ELSE raster.extension
            new_raster == IF gdb THEN <<"", raster.base, "", "">>
                          ELSE <<"temp_", raster.base, raster.extension, extension>>
            final_raster == <<"", raster.base, raster.extension, extension>>
            exists == \/ new_raster \in DOMAIN round.written
                      \/ ~gdb /\ final_raster \in DOMAIN round.written
            dp == determine_precision(round.precision)
            rounded_raster == RoundValue(raster.v, dp.rounding_value, dp.multiplier)
            saved == (new_raster :> rounded_raster) @@ round.written
            copied == (final_raster :> rounded_raster) @@ saved
            deleted == [q \in DOMAIN copied \ {new_raster} |-> copied[q]]
            called == [called |-> TRUE] @@ dp
        IN  round' =
              IF exists THEN [round EXCEPT !.status = "exit1"]
              ELSE IF dp.exit = 1 THEN [round EXCEPT !.status = "exit1", !.dp = called]
              ELSE IF fp = 1 THEN [round EXCEPT !.status = "error", !.dp = called]
              ELSE IF gdb
                   THEN [round EXCEPT !.written = saved, !.dp = called, !.i = @ + 1]
              ELSE IF fp = 2
                   THEN [round EXCEPT !.written = saved, !.dp = called, !.status = "error"]
              ELSE IF fp = 3
                   THEN [round EXCEPT !.written = copied, !.dp = called, !.status = "error"]
              ELSE [round EXCEPT !.written = deleted, !.dp = called, !.i = @ + 1]
    /\ UNCHANGED <<files, layers, overwriteOutput, elev_table, mosaic, pc, status,
                   runs, files0, ncalls, lastCall>>

\* the loop is over: main returns
RoundReturn ==
    /\ round.status = "running"
    /\ round.i > Len(round.rasters)
    /\ round' = [round EXCEPT !.status = "returned"]
    /\ UNCHANGED <<files, layers, overwriteOutput, elev_table, mosaic, pc, status,
                   runs, files0, ncalls, lastCall>>

\* The tool is invoked again over the same workspace, in the same session
\* (the layers stay) or in a new one (they are gone).
Restart ==
    /\ status \in {"done", "failed"}
    /\ runs < MaxRuns
    /\ runs' = runs + 1
    /\ status' = "running"
    /\ pc' = [stage |-> "flood1", si |-> 0, ei |-> 0]
    /\ mosaic' \in BOOLEAN
    /\ layers' \in {layers, {}}
    /\ files0' = files
    /\ ncalls' = 0
    /\ lastCall' = NoCall
    /\ UNCHANGED <<files, overwriteOutput, elev_table, round>>

InitCommon ==
    /\ files = <<>>
    /\ layers = {}
    /\ overwriteOutput \in BOOLEAN
    /\ mosaic \in BOOLEAN
    /\ pc = [stage |-> "flood1", si |-> 0, ei |-> 0]
    /\ status = "running"
    /\ runs = 1
    /\ files0 = <<>>
    /\ ncalls = 0
    /\ lastCall = NoCall
    /\ round = RoundIdle

\* ------------------------------------------------------------- the joiner's specification
\* the records an elevation table of SpecJoin is made of: lines A and B, a
\* short and a long event text, each record with its own elevation
JoinRecs ==
    {Rec(id, typ, (IF id = "A" THEN 1 ELSE 3) + (IF typ = "01pct" THEN 0 ELSE 1), ev) :
        id \in {"A", "B"}, typ \in {"01pct", "10 Percent Chance"}, ev \in {"T", "F"}}

\* L_XS_ELEV is keyed by line identifier and event type
KeyUnique(tab) ==
    \A i, j \in DOMAIN tab :
        (tab[i].XS_LN_ID = tab[j].XS_LN_ID /\ tab[i].EVENT_TYP = tab[j].EVENT_TYP)
            => i = j

JoinTables ==
    {tab \in UNION {[1..n -> JoinRecs] : n \in 0..MaxRecs} : KeyUnique(tab)}

InitJoin == InitCommon /\ elev_table \in JoinTables

NextJoin ==
    \/ CreateFloodingClippers
    \/ MakeFolder
    \/ CopyCrossSections
    \/ CreateElevValuesTable
    \/ Restart

SpecJoin == InitJoin /\ [][NextJoin]_vars

\* ------------------------------------------------------------- combine_xs_l_xs_elev.py
\* the fields the script adds, in the order of row[1..10]
combine_fields ==
    <<"PCT_10", "PCT_4", "PCT_2", "PCT_1", "PCT_1_Plus", "PCT_0_2",
      "PCT_1_Min", "PCT_1_Fut", "PCT_50", "PCT_20">>

\* the event-type texts the i-th branch of the if / elif chain accepts
combine_Synonyms(i) ==
    CASE i = 1 -> {"10pct", "10 Percent Chance"}
      [] i = 2 -> {"04pct", "4 Percent Chance"}
      [] i = 3 -> {"02pct", "2 Percent Chance"}
      [] i = 4 -> {"01pct", "1 Percent Chance"}
      [] i = 5 -> {"01plus", "1 Percent Plus Chance"}
      [] i = 6 -> {"0_2pct", "0.2 Percent Chance"}
      [] i = 7 -> {"01minus", "1 Percent Minus Chance"}
      [] i = 8 -> {"01pctfut", "1 Percent Change Future Conditions"}
      [] i = 9 -> {"50pct", "50 Percent Chance"}
      [] i = 10 -> {"20pct", "20 Percent Chance"}

\* row after the chain on one record: the first branch that accepts the text
\* assigns, the others are not tried
combine_AssignEvent(row, event_type, wsel) ==
    LET hits == {i \in DOMAIN combine_fields : event_type \in combine_Synonyms(i)}
    IN  IF hits = {} THEN row
        ELSE [row EXCEPT ![combine_fields[Min(hits)]] = wsel]

\* ------------------------------------------------------------- the event texts' specification
\* event-type texts of L_XS_ELEV: the twenty the joiner names, the future
\* conditions event of the other script, and texts no script names
EventTypeTexts ==
    UNION {Synonyms(i) : i \in DOMAIN fields}
    \cup {"01pctfut", "1 Percent Change Future Conditions", "01min",
          "1 percent chance", "1pct", ""}

\* one record for line A with an elevation no field holds otherwise
InitSyn ==
    InitCommon /\ elev_table \in {<<Rec("A", t, 5, "F")>> : t \in EventTypeTexts}

SpecSyn == InitSyn /\ [][NextJoin]_vars

\* ------------------------------------------------------------- the rounding tool's specification
\* the arguments of round_rasters.py: a list of rasters, an output workspace
\* that is a geodatabase or a folder, and the precision text
InitRound ==
    /\ files = <<>>
    /\ layers = {}
    /\ overwriteOutput = FALSE
    /\ mosaic = FALSE
    /\ pc = [stage |-> "flood1", si |-> 0, ei |-> 0]
    /\ status = "running"
    /\ runs = 1
    /\ files0 = <<>>
    /\ ncalls = 0
    /\ lastCall = NoCall
    /\ elev_table = <<>>
    /\ round \in {[RoundIdle EXCEPT !.status = "running", !.rasters = r,
                                    !.out_workspace = w, !.precision = t] :
                    r \in UNION {[1..n -> RasterInputs] : n \in 1..MaxRasters},
                    w \in {"DEWorkspace", "Folder"},
                    t \in PrecisionTexts}

NextRound ==
    \/ RoundRaster
    \/ RoundReturn

SpecRound == InitRound /\ [][NextRound]_vars

\* ------------------------------------------------------------- the pipeline's specification
Init == InitCommon /\ elev_table = BaseTable

Next ==
    \/ CreateFloodingClippers
    \/ MakeFolder
    \/ CopyCrossSections
    \/ CreateElevValuesTable
    \/ CreateStreamClippers
    \/ MakeTin
    \/ CreateFullWithRaster
    \/ ClipRaster
    \/ ExtractRasterFromDem
    \/ MosaicWseGrid
    \/ Restart

Spec == Init /\ [][Next]_vars


\* ------------------------------------------------------------- properties
StreamStages == {"folder", "copy", "join", "clipper", "tin", "raster", "clip", "dem"}
EventStages == {"tin", "raster", "clip", "dem"}
EventFunctions ==
    {"make_tin", "create_full_with_raster", "clip_raster", "extract_raster_from_dem"}

\* the stream folder and the datasets of a stream and event, as spec'd in the
\* filesystem layout
StreamFolder(wn) == Lower(ValidateTableName(wn))
XsElev(wn) == <<StreamFolder(wn), "xs_elev", ".shp">>
Clipper(wn) == <<StreamFolder(wn), "clipper", ".shp">>
TinOf(wn, ev) == <<StreamFolder(wn), Lower(ev), ".tin">>
FullOf(wn, ev) == <<StreamFolder(wn), Lower(ev), "_full.tif">>
TempOf(wn, ev) == <<StreamFolder(wn), Lower(ev), "_temp.tif">>
FinalOf(wn, ev) == <<StreamFolder(wn), Lower(ev), ".tif">>

\* main has returned from function fn without an exception
Returned(fn) == lastCall.fn = fn /\ lastCall.ctl # "raise"

\* in the current invocation the joiner has completed for the si-th stream
JoinDone(si) ==
    \/ pc.stage \in {"mosaic", "end"}
    \/ pc.si > si
    \/ pc.si = si /\ pc.stage \in {"clipper"} \cup EventStages

\* the records of the elevation table for a line
Matching(id) == {r \in Range(elev_table) : r.XS_LN_ID = id}

\* the event texts of a field, as the data model lists them
EventTexts(f) ==
    CASE f = "WSE_50pct" -> {"50pct", "50 Percent Chance"}
      [] f = "WSE_20pct" -> {"20pct", "20 Percent Chance"}
      [] f = "WSE_10pct" -> {"10pct", "10 Percent Chance"}
      [] f = "WSE_04pct" -> {"04pct", "4 Percent Chance"}
      [] f = "WSE_02pct" -> {"02pct", "2 Percent Chance"}
      [] f = "WSE_01plus" -> {"01plus", "1 Percent Plus Chance"}
      [] f = "WSE_01min" -> {"01minus", "1 Percent Minus Chance"}
      [] f = "WSE_01pct" -> {"01pct", "1 Percent Chance"}
      [] f = "WSE_0_2pct" -> {"0_2pct", "0.2 Percent Chance"}
      [] f = "WSE_0_5pct" -> {"0_5pct", "0.5 Percent Chance"}

\* the cross-sections of a stream's xs_elev that qualify for an event
Qualifying(wn, ev) ==
    {r \in Range(files[XsElev(wn)].rows) :
        r.wse[ev] # NullWsel /\ r.wse[ev] # Placeholder}

\* the names of the operations in the last call
OpNames == {lastCall.ops[i].op : i \in DOMAIN lastCall.ops}

\* C1: when an engine call fails while a stream is processed, the run is not
\* aborted: the streams after it in process_list are still processed.  Stated
\* on the model: no run ends in a failure with streams left unprocessed.
C1_LaterStreamsProcessed ==
    ~(status = "failed" /\ pc.stage \in StreamStages /\ pc.si < Len(process_list))

\* C2: for a stream and event whose final grid existed when the run started,
\* the per-event stages build no TIN, rasterize nothing, clip nothing, run no
\* terrain-floor pass and leave the workspace as it was.
C2_ExistingGridShortCircuits ==
    (/\ lastCall.fn \in EventFunctions
     /\ FinalOf(lastCall.water_name, lastCall.event) \in DOMAIN files0)
    => /\ OpNames \cap {"CreateTin", "TinRaster", "ExtractByMask", "save",
                        "Rename", "SetNull"} = {}
       /\ files = lastCall.before

\* C3: after the joiner has run for a stream, no line of its xs_elev has a
\* matching elevation record with EVAL_LN = 'T', whatever the order of the
\* records and whatever the other records of the line supplied.
C3_EvalLinesDropped ==
    \A si \in DOMAIN process_list :
        (JoinDone(si) /\ XsElev(process_list[si]) \in DOMAIN files)
        => \A row \in Range(files[XsElev(process_list[si])].rows) :
              \A r \in Matching(row.XS_LN_ID) : r.EVAL_LN # "T"

\* a line with an evaluation-line record followed by a record that supplies
\* an elevation has been dropped by a completed join
C3_Witness ==
    /\ JoinDone(1)
    /\ \E i, j \in DOMAIN elev_table :
          /\ i < j
          /\ elev_table[i].XS_LN_ID = "A" /\ elev_table[i].EVAL_LN = "T"
          /\ elev_table[j].XS_LN_ID = "A" /\ elev_table[j].EVAL_LN = "F"
    /\ XsElev("Clear Creek") \in DOMAIN files
    /\ \A row \in Range(files[XsElev("Clear Creek")].rows) : row.XS_LN_ID # "A"

\* C4: after the joiner has run, for every surviving line and every event E
\* the field for E equals the WSEL of a non-evaluation-line record of the
\* line for E if there is one, and still holds the sentinel if no record
\* matches the line and E.
C4_JoinedOrSentinel ==
    \A si \in DOMAIN process_list :
        (JoinDone(si) /\ XsElev(process_list[si]) \in DOMAIN files)
        => \A row \in Range(files[XsElev(process_list[si])].rows) :
              \A f \in Range(fields) :
                 LET recs == {r \in Matching(row.XS_LN_ID) :
                                 r.EVENT_TYP \in EventTexts(f)}
                 IN  /\ f \in DOMAIN row.wse
                     /\ \A r \in recs : r.EVAL_LN # "T" => row.wse[f] = r.WSEL
                     /\ recs = {} => row.wse[f] = Placeholder

\* C5: whenever the joiner has run for a stream, in a first run or a re-run,
\* every surviving line has each of the ten event fields, and each field
\* holds the sentinel of copy_cross_sections or an elevation of the table.
C5_FieldsInitialized ==
    \A si \in DOMAIN process_list :
        (JoinDone(si) /\ XsElev(process_list[si]) \in DOMAIN files)
        => \A row \in Range(files[XsElev(process_list[si])].rows) :
              \A f \in Range(add_fields) :
                 /\ f \in DOMAIN row.wse
                 /\ \/ row.wse[f] = Placeholder
                    \/ \E r \in Matching(row.XS_LN_ID) : row.wse[f] = r.WSEL

\* C6: make_tin builds a TIN exactly when at least two cross-sections of the
\* stream have an elevation for the event that is neither -9999 nor -8888,
\* and the TIN is built from exactly those cross-sections.
C6_TinFromQualifying ==
    Returned("make_tin")
    => LET wn == lastCall.water_name
           ev == lastCall.event
           q == Qualifying(wn, ev)
       IN  /\ TinOf(wn, ev) \in DOMAIN files <=> Cardinality(q) >= 2
           /\ TinOf(wn, ev) \in DOMAIN files
                => files[TinOf(wn, ev)].lines =
                      {[XS_LN_ID |-> r.XS_LN_ID, STREAM_STN |-> r.STREAM_STN,
                        z |-> r.wse[ev]] : r \in q}

\* the TIN of stations 1 and 3, the line at station 2 holding a sentinel
C6_Witness ==
    /\ Returned("make_tin")
    /\ TinOf(lastCall.water_name, lastCall.event) \in DOMAIN files
    /\ {l.STREAM_STN : l \in files[TinOf(lastCall.water_name, lastCall.event)].lines}
          = {1, 3}
    /\ \E r \in Range(files[XsElev(lastCall.water_name)].rows) :
          r.STREAM_STN = 2 /\ r.wse[lastCall.event] = NullWsel

\* C7: for a stream and event with fewer than two qualifying cross-sections
\* each of the four per-event stages creates and modifies nothing, logs the
\* informational message only, and main goes on.
C7_InsufficientDataSkips ==
    (/\ lastCall.fn \in EventFunctions
     /\ lastCall.ctl # "raise"
     /\ Cardinality(Qualifying(lastCall.water_name, lastCall.event)) < 2)
    => /\ files = lastCall.before
       /\ OpNames \subseteq {"MakeFeatureLayer", "GetCount"}
       /\ lastCall.msgs = << <<"There are no WSE values for", lastCall.event>> >>
       /\ status # "failed"
       /\ {TinOf(lastCall.water_name, lastCall.event),
           FullOf(lastCall.water_name, lastCall.event),
           TempOf(lastCall.water_name, lastCall.event),
           FinalOf(lastCall.water_name, lastCall.event)} \cap DOMAIN files = {}

\* the last of the four stages has skipped an event with one qualifying line
C7_Witness ==
    /\ lastCall.fn = "extract_raster_from_dem"
    /\ lastCall.ctl # "raise"
    /\ Cardinality(Qualifying(lastCall.water_name, lastCall.event)) = 1
    /\ pc.stage = "tin"

\* the pairs of stations of a stream's xs_elev adjacent in ascending order
AdjacentPairs(wn) ==
    LET stn == {r.STREAM_STN : r \in Range(files[XsElev(wn)].rows)}
    IN  {p \in stn \X stn :
            p[1] < p[2] /\ ~\E c \in stn : p[1] < c /\ c < p[2]}

\* the hulls the last call computed, in order
Hulls ==
    LET idx == SelectSeq([i \in DOMAIN lastCall.ops |-> i],
                         LAMBDA i : lastCall.ops[i].op = "MinimumBoundingGeometry")
    IN  [k \in DOMAIN idx |-> lastCall.ops[idx[k]].a]

\* C8: create_stream_clippers forms exactly one convex hull for each pair of
\* stations adjacent in ascending order, and for no other pair, and the
\* clipper is the dissolve of exactly those hulls.
C8_HullsOfAdjacentStations ==
    (lastCall.fn = "create_stream_clippers" /\ lastCall.ctl = "run")
    => LET wn == lastCall.water_name
           stn == {r.STREAM_STN : r \in Range(files[XsElev(wn)].rows)}
       IN  /\ Range(Hulls) = AdjacentPairs(wn)
           /\ Len(Hulls) = Cardinality(AdjacentPairs(wn))
           /\ stn # {} => Len(Hulls) = Cardinality(stn) - 1
           /\ files[Clipper(wn)].parts =
                 {<<Centre(p[1]), Centre(p[2])>> : p \in AdjacentPairs(wn)}

\* stations 1, 2, 3 have given the hulls (1,2) and (2,3)
C8_Witness ==
    /\ lastCall.fn = "create_stream_clippers" /\ lastCall.ctl = "run"
    /\ Hulls = << <<1, 2>>, <<2, 3>> >>
    /\ files[Clipper(lastCall.water_name)].parts =
          {<<Centre(1), Centre(2)>>, <<Centre(2), Centre(3)>>}

\* C9: create_stream_clippers on a stream whose clipper exists changes
\* nothing in the workspace and performs no engine operation.
C9_ClipperIdempotent ==
    (/\ lastCall.fn = "create_stream_clippers"
     /\ Clipper(lastCall.water_name) \in DOMAIN lastCall.before)
    => /\ lastCall.ops = <<>>
       /\ files = lastCall.before
       /\ status # "failed"

\* the clipper of a stream existed and the function has been called again
C9_Witness ==
    /\ lastCall.fn = "create_stream_clippers"
    /\ Clipper(lastCall.water_name) \in DOMAIN lastCall.before
    /\ runs = 2

\* the flood extent of an event's class
ExtentOf(ev) ==
    IF ev \in {"WSE_01plus", "WSE_01min", "WSE_0_2pct", "WSE_0_5pct"}
    THEN <<"", "flooding_0_2pct", ".shp">>
    ELSE <<"", "flooding_1pct", ".shp">>

\* C10: clip_raster masks with the 0.2% flood extent exactly when the event
\* is WSE_01plus, WSE_01min, WSE_0_2pct or WSE_0_5pct, and with the 1% flood
\* extent for every other event.
C10_ExtentByEvent ==
    /\ \A ev \in Range(events) : flooding(ev) = ExtentOf(ev)
    /\ lastCall.fn = "clip_raster"
       => \A i \in DOMAIN lastCall.ops :
             lastCall.ops[i].op = "ExtractByMask"
             => lastCall.ops[i].a[2] = ExtentOf(lastCall.event)

\* clip_raster has masked a 0.2%-class event's raster with the 0.2% extent
C10_Witness ==
    /\ Returned("clip_raster")
    /\ lastCall.event = "WSE_01plus"
    /\ \E i \in DOMAIN lastCall.ops :
          /\ lastCall.ops[i].op = "ExtractByMask"
          /\ lastCall.ops[i].a[2] = <<"", "flooding_0_2pct", ".shp">>
    /\ DOMAIN files[FinalOf(lastCall.water_name, "WSE_01plus")].cell = {1, 2, 3}

\* the mapped hazard zones of an event's extent class: zones AE, A and AH for
\* the 1% class, and those with the 0.2% subtypes for the 0.2% class
MappedExtent(ev) ==
    LET class02 == ev \in {"WSE_01plus", "WSE_01min", "WSE_0_2pct", "WSE_0_5pct"}
    IN  {r.part : r \in {x \in Range(flooding_fc) :
            \/ x.FLD_ZONE \in {"AE", "A", "AH"}
            \/ class02 /\ x.ZONE_SUBTY \in {"0500", "0.2 PCT ANNUAL CHANCE FLOOD HAZARD"}}}

\* the per-stream final grids in the workspace, as <<stream, event>>
FinalGrids ==
    {g \in Range(process_list) \X Range(events) : FinalOf(g[1], g[2]) \in DOMAIN files}

\* C11 as stated: every data cell of a per-stream final grid lies inside the
\* mapped extent polygon of the event's class (its centre is in the polygon).
C11_InsideMappedExtent ==
    \A g \in FinalGrids :
        \A c \in DOMAIN files[FinalOf(g[1], g[2])].cell :
            \E p \in MappedExtent(g[2]) : p[1] <= Centre(c) /\ Centre(c) <= p[2]

\* C11 as amended: every data cell of a per-stream final grid lies inside the
\* buffered extent of the event's class: its centre is at most half a cell
\* away from the mapped extent polygon.
C11_InsideBufferedExtent ==
    \A g \in FinalGrids :
        \A c \in DOMAIN files[FinalOf(g[1], g[2])].cell :
            \E p \in MappedExtent(g[2]) :
                p[1] - Centre(c) <= HalfCell /\ Centre(c) - p[2] <= HalfCell

\* the final grid of a 1%-class event ends at cell 2 although the surface
\* and the reach boundary went on to cell 3
C11_Witness ==
    /\ Returned("clip_raster")
    /\ lastCall.water_name = "Clear Creek" /\ lastCall.event = "WSE_10pct"
    /\ DOMAIN lastCall.before[FullOf("Clear Creek", "WSE_10pct")].cell = {1, 2, 3}
    /\ FinalOf("Clear Creek", "WSE_10pct") \in DOMAIN files
    /\ DOMAIN files[FinalOf("Clear Creek", "WSE_10pct")].cell = {1, 2}

\* the last call was extract_raster_from_dem and ran to its end on a grid
FloorEnforced ==
    /\ lastCall.fn = "extract_raster_from_dem"
    /\ lastCall.ctl = "run"
    /\ "SetNull" \in OpNames

\* C12: after extract_raster_from_dem, every cell of <event>.tif whose value
\* was lower than the terrain at the cell is no-data, and every other cell
\* has exactly the value it had before the stage.
C12_FloorEnforced ==
    FloorEnforced
    => LET g == FinalOf(lastCall.water_name, lastCall.event)
           old == lastCall.before[g].cell
       IN  /\ lastCall.event \notin {"WSE_01pct", "WSE_0_2pct"}
           /\ g \in DOMAIN files
           /\ DOMAIN files[g].cell \subseteq DOMAIN old
           /\ \A c \in DOMAIN old :
                 IF old[c] < dem[c]
                 THEN c \notin DOMAIN files[g].cell
                 ELSE c \in DOMAIN files[g].cell /\ files[g].cell[c] = old[c]

\* a grid with a cell below the terrain and a cell level with it has lost
\* the first and kept the second
C12_Witness ==
    /\ FloorEnforced
    /\ LET g == FinalOf(lastCall.water_name, lastCall.event)
           old == lastCall.before[g].cell
       IN  /\ \E c \in DOMAIN old : old[c] < dem[c]
           /\ \E c \in DOMAIN old : old[c] = dem[c] /\ c \in DOMAIN files[g].cell

\* the per-stream final grids of the two base events, present before and
\* after the last call
BaseGrids ==
    {FinalOf(wn, ev) : wn \in Range(process_list), ev \in {"WSE_01pct", "WSE_0_2pct"}}

\* C13: the terrain-floor stage is never executed for WSE_01pct and
\* WSE_0_2pct, whose final grid is cell for cell what the flood-extent clip
\* wrote, and it is executed for every other event.
C13_BaseEventsSkipFloor ==
    /\ lastCall.fn = "extract_raster_from_dem"
          => lastCall.event \notin {"WSE_01pct", "WSE_0_2pct"}
    /\ (Returned("clip_raster") /\ status = "running")
          => (pc.stage = "dem" <=> lastCall.event \notin {"WSE_01pct", "WSE_0_2pct"})
    /\ lastCall.fn # ""
          => \A g \in BaseGrids :
                /\ g \in DOMAIN lastCall.before
                      => g \in DOMAIN files /\ files[g] = lastCall.before[g]
                /\ (g \notin DOMAIN lastCall.before /\ g \in DOMAIN files)
                      => /\ lastCall.fn = "clip_raster"
                         /\ "ExtractByMask" \in OpNames

\* the grid of WSE_01pct keeps a cell below the terrain after the stream's
\* later events have been processed, the floor stage having run for them
C13_Witness ==
    /\ lastCall.fn = "extract_raster_from_dem"
    /\ lastCall.water_name = "Clear Creek"
    /\ "SetNull" \in OpNames
    /\ FinalOf("Clear Creek", "WSE_01pct") \in DOMAIN files
    /\ \E c \in DOMAIN files[FinalOf("Clear Creek", "WSE_01pct")].cell :
          files[FinalOf("Clear Creek", "WSE_01pct")].cell[c] < dem[c]

\* the composite of an event, and the rasters of the event the workspace
\* held when the last call began (the composite of an earlier run is deleted
\* before the walk)
Composite(ev) == <<"", Lower(ev), ".tif">>
MosaicInputs ==
    {k \in DOMAIN lastCall.before \ {Composite(lastCall.event)} :
        /\ lastCall.before[k].kind = "raster"
        /\ k[2] = Lower(lastCall.event)}

\* the last call was mosaic_wse_grid and merged rasters
Mosaicked == lastCall.fn = "mosaic_wse_grid" /\ lastCall.ctl = "run"

\* C14: the composite mosaic_wse_grid produces has at every cell the maximum
\* of the values its input rasters have at that cell, and no data where no
\* input has data, whichever raster the walk finds first.
C14_CompositeIsMaximum ==
    Mosaicked
    => LET out == files[Composite(lastCall.event)].cell
       IN  \A c \in Cells :
              LET vals == {lastCall.before[k].cell[c] :
                              k \in {x \in MosaicInputs :
                                        c \in DOMAIN lastCall.before[x].cell}}
              IN  IF vals = {} THEN c \notin DOMAIN out
                  ELSE c \in DOMAIN out /\ out[c] = Max(vals)

\* two streams' grids of WSE_01pct overlap at cell 2 with 2 and 3; the walk
\* found the grid holding 2 first and the composite holds 3
C14_Witness ==
    /\ Mosaicked
    /\ lastCall.event = "WSE_01pct"
    /\ Cardinality(MosaicInputs) = 2
    /\ \E i \in DOMAIN lastCall.ops :
          /\ lastCall.ops[i].op = "Copy"
          /\ lastCall.before[lastCall.ops[i].a[1]].cell[2] = 2
    /\ \E k \in MosaicInputs : lastCall.before[k].cell[2] = 3
    /\ files[Composite("WSE_01pct")].cell[2] = 3
    /\ 3 \notin DOMAIN files[Composite("WSE_01pct")].cell

\* C15: when no stream produced a raster for an event, mosaic_wse_grid logs
\* the informational message, raises no error, copies and mosaics nothing,
\* leaves no composite for the event, and main goes on to the next event.
C15_NoRasterSkipsMosaic ==
    (/\ lastCall.fn = "mosaic_wse_grid"
     /\ \A wn \in Range(process_list) :
           FinalOf(wn, lastCall.event) \notin DOMAIN lastCall.before)
    => /\ lastCall.ctl = "return"
       /\ status # "failed"
       /\ lastCall.msgs = << <<"There are no WSE values for", lastCall.event>> >>
       /\ lastCall.ops = <<>>
       /\ Composite(lastCall.event) \notin DOMAIN files
       /\ \/ pc.stage = "mosaic" /\ events[pc.ei - 1] = lastCall.event
          \/ pc.stage = "end" /\ events[Len(events)] = lastCall.event

\* the mosaicker has skipped WSE_50pct, for which no stream has elevations,
\* and stands at the next event
C15_Witness ==
    /\ lastCall.fn = "mosaic_wse_grid"
    /\ lastCall.event = "WSE_50pct"
    /\ lastCall.ctl = "return"
    /\ pc.stage = "mosaic" /\ event = "WSE_20pct"

\* the artifacts of a stream and event that workspace f holds
Arts(f, wn, ev) ==
    {a \in {"tin", "temp", "full", "final"} :
        (CASE a = "tin" -> TinOf(wn, ev)
           [] a = "temp" -> TempOf(wn, ev)
           [] a = "full" -> FullOf(wn, ev)
           [] a = "final" -> FinalOf(wn, ev)) \in DOMAIN f}

\* C16: a stream and event moves only along PENDING -> SURFACE_BUILT ->
\* RASTERIZED -> REACH_CLIPPED -> EXTENT_CLIPPED -> FLOOR_ENFORCED or
\* SKIPPED_FLOOR -> DONE, or from PENDING to INSUFFICIENT_DATA, the latter
\* exactly when fewer than two cross-sections qualify; no stage runs before
\* its predecessor's output exists.  On the artifacts: each per-event function
\* that returns takes the stream and event from its predecessor's artifacts
\* to its own, or finds the event without data and leaves nothing.
C16_StageOrder ==
    (lastCall.fn \in EventFunctions /\ lastCall.ctl # "raise")
    => LET wn == lastCall.water_name
           ev == lastCall.event
           a == Arts(lastCall.before, wn, ev)
           b == Arts(files, wn, ev)
           few == Cardinality(Qualifying(wn, ev)) < 2
           skipped == << <<"There are no WSE values for", ev>> >> = lastCall.msgs
           nodata == few /\ a = {} /\ b = {} /\ skipped
       IN  CASE lastCall.fn = "make_tin" ->
                  /\ a = {}
                  /\ skipped <=> few
                  /\ b = IF few THEN {} ELSE {"tin"}
             [] lastCall.fn = "create_full_with_raster" ->
                  \/ nodata
                  \/ /\ a = {"tin"} /\ b = {"full"}
                     /\ {"TinRaster", "ExtractByMask"} \subseteq OpNames
             [] lastCall.fn = "clip_raster" ->
                  \/ nodata
                  \/ a = {"full"} /\ b = {"final"} /\ "ExtractByMask" \in OpNames
             [] lastCall.fn = "extract_raster_from_dem" ->
                  \/ nodata
                  \/ a = {"final"} /\ b = {"final"} /\ "SetNull" \in OpNames

\* a call of main: the function, the stream and the event it is made for
CallOf(fn, wn, ev) == [fn |-> fn, water_name |-> wn, event |-> ev]

RECURSIVE EventCalls(_, _)
\* the calls for the events from the i-th on, for one stream
EventCalls(wn, i) ==
    IF i > Len(events) THEN <<>>
    ELSE <<CallOf("make_tin", wn, events[i]),
           CallOf("create_full_with_raster", wn, events[i]),
           CallOf("clip_raster", wn, events[i])>>
         \o (IF events[i] \in {"WSE_01pct", "WSE_0_2pct"} THEN <<>>
             ELSE <<CallOf("extract_raster_from_dem", wn, events[i])>>)
         \o EventCalls(wn, i + 1)

RECURSIVE StreamCalls(_)
\* the calls for the streams from the i-th on
StreamCalls(i) ==
    IF i > Len(process_list) THEN <<>>
    ELSE <<CallOf("make_folder", process_list[i], ""),
           CallOf("copy_cross_sections", process_list[i], ""),
           CallOf("create_elev_values_table", process_list[i], ""),
           CallOf("create_stream_clippers", process_list[i], "")>>
         \o EventCalls(process_list[i], 1)
         \o StreamCalls(i + 1)

\* the calls of a whole run in order: the two flood clippers, the streams in
\* the order of process_list, then one mosaic per event if the flag is set
ExpectedCalls ==
    <<CallOf("create_flooding_clippers", "", "100 year"),
      CallOf("create_flooding_clippers", "", "500 year")>>
    \o StreamCalls(1)
    \o (IF mosaic THEN [i \in DOMAIN events |-> CallOf("mosaic_wse_grid", "", events[i])]
        ELSE <<>>)

\* C17: main creates both flood clippers first, processes the streams one at
\* a time in the order of process_list with the stages folder, copy, join,
\* reach boundary, then the per-event stages, and runs the mosaicker after
\* the last stream, once per event when the flag is set and never otherwise.
C17_CallOrder ==
    /\ ncalls <= Len(ExpectedCalls)
    /\ ncalls > 0
          => CallOf(lastCall.fn, lastCall.water_name, lastCall.event)
                = ExpectedCalls[ncalls]
    /\ status = "done" => ncalls = Len(ExpectedCalls)

\* a run with the mosaic flag has returned after the mosaic of the last event
C17_Witness ==
    /\ status = "done"
    /\ mosaic
    /\ lastCall.fn = "mosaic_wse_grid" /\ lastCall.event = events[Len(events)]
    /\ ncalls = 2 + Len(process_list) * (4 + 4 * Len(events) - 2) + Len(events)

\* a run without the mosaic flag has returned after the last stream
C17_WitnessNoMosaic ==
    /\ status = "done"
    /\ ~mosaic
    /\ lastCall.fn = "extract_raster_from_dem"
    /\ lastCall.water_name = process_list[Len(process_list)]

\* in the current invocation the processing of the ei-th event of the si-th
\* stream has ended: main has gone past it, or an exception left main in it
EventEnded(si, ei) ==
    \/ pc.stage \in {"mosaic", "end"}
    \/ pc.si > si
    \/ pc.si = si /\ pc.ei > ei
    \/ status = "failed" /\ pc.si = si /\ pc.ei = ei /\ pc.stage \in EventStages

\* C18: whenever the processing of a stream and event has ended, by success,
\* by skip or by an engine failure in any stage, neither <event>.tin nor
\* <event>_temp.tif exists in the stream folder.
C18_NoIntermediateRemains ==
    \A si \in DOMAIN process_list, ei \in DOMAIN events :
        EventEnded(si, ei)
        => /\ TinOf(process_list[si], events[ei]) \notin DOMAIN files
           /\ TempOf(process_list[si], events[ei]) \notin DOMAIN files

\* the named temporary layers, views and in_memory datasets of the stages
TempLayers ==
    {"xs_sel", "xs_select", "xs_lyr", "xs_layer", "elev_layer", "clipper_lyr",
     "flood_lyr", "flooding_layer", "in_memory\\clip_boundary"}

\* the named temporary datasets the stages keep in the workspace
TempFiles == {<<"", "clipper_temp", ".shp">>, <<"", "flooding_projected", ".shp">>}

\* C19: every named temporary artifact a stage creates has been removed when
\* the stage exits, whether it returns or an engine call in it fails.
C19_TemporariesRemoved ==
    lastCall.fn # ""
    => /\ layers \cap TempLayers = {}
       /\ DOMAIN files \cap TempFiles = {}

\* the dataset a per-event stage needs: the TIN for the rasterizer, the
\* reach-clipped raster for the flood-extent clip, the final grid for the
\* terrain-floor stage
InputOf(fn, wn, ev) ==
    CASE fn = "create_full_with_raster" -> TinOf(wn, ev)
      [] fn = "clip_raster" -> FullOf(wn, ev)
      [] fn = "extract_raster_from_dem" -> FinalOf(wn, ev)

\* the last call was a later stage and its input was absent
InputMissing ==
    /\ lastCall.fn \in {"create_full_with_raster", "clip_raster",
                        "extract_raster_from_dem"}
    /\ InputOf(lastCall.fn, lastCall.water_name, lastCall.event)
          \notin DOMAIN lastCall.before

\* C20: a later stage whose expected input is absent logs a message, creates
\* and modifies nothing, raises no error, and the pipeline continues.
C20_MissingInputSkips ==
    InputMissing
    => /\ lastCall.ctl = "return"
       /\ Len(lastCall.msgs) = 1
       /\ lastCall.ops = <<>>
       /\ files = lastCall.before
       /\ status # "failed"
       /\ status = "running" => pc.stage \in {"clip", "dem", "tin", "folder", "mosaic"}
       /\ CallOf(lastCall.fn, lastCall.water_name, lastCall.event)
             = ExpectedCalls[ncalls]

\* the terrain-floor stage found no grid for an event and main stands at the
\* next event's first stage
C20_Witness ==
    /\ InputMissing
    /\ lastCall.fn = "extract_raster_from_dem"
    /\ lastCall.msgs = << <<"There are no WSE values for", lastCall.event>> >>
    /\ status = "running"
    /\ pc.stage = "tin"

\* the distinct station values of a stream's xs_elev in workspace f
StationsOf(f, wn) == {r.STREAM_STN : r \in Range(f[XsElev(wn)].rows)}

\* the stream of the last call has fewer than two distinct stations
FewStations ==
    /\ lastCall.water_name \in Range(process_list)
    /\ XsElev(lastCall.water_name) \in DOMAIN lastCall.before
    /\ Cardinality(StationsOf(lastCall.before, lastCall.water_name)) < 2

\* C21: for a stream with fewer than two distinct stations
\* create_stream_clippers, when no engine call fails, produces an empty
\* boundary, and the reach clip is never executed against the empty
\* boundary, so that no later stage of the stream fails because of it.
C21_EmptyBoundaryNotUsed ==
    FewStations
    => /\ (lastCall.fn = "create_stream_clippers" /\ lastCall.ctl = "run")
             => files[Clipper(lastCall.water_name)].parts = {}
       /\ lastCall.fn = "create_full_with_raster"
             => \A i \in DOMAIN lastCall.ops :
                   lastCall.ops[i].op = "ExtractByMask"
                   => files[Key(lastCall.ops[i].a[2])].parts # {}

\* the fields of a text by the data model's list of synonyms
FieldsOfText(t) == {f \in Range(fields) : t \in EventTexts(f)}

\* the row of a line in a stream's xs_elev of workspace f
RowOf(f, wn, id) ==
    CHOOSE r \in Range(f[XsElev(wn)].rows) : r.XS_LN_ID = id

\* the joiner has run to its end over the one-record table
JoinedOneRecord ==
    /\ lastCall.fn = "create_elev_values_table"
    /\ lastCall.ctl = "run"
    /\ Len(elev_table) = 1

\* C22: in the joiner a recognized event-type text sets exactly one elevation
\* field, the field of its event, both synonyms of an event set the same
\* field, no text sets two fields, and a record with an unrecognized text
\* changes no field.  The other script's if / elif chain binds its texts the
\* same way.
C22_OneFieldPerText ==
    /\ \A t \in EventTypeTexts :
          LET row == [f \in Range(combine_fields) |-> 0]
              set == {f \in Range(combine_fields) :
                         combine_AssignEvent(row, t, 5)[f] = 5}
          IN  set = {combine_fields[i] : i \in {j \in DOMAIN combine_fields :
                                                   t \in combine_Synonyms(j)}}
              /\ Cardinality(set) <= 1
    /\ JoinedOneRecord
       => LET r == elev_table[1]
              old == RowOf(lastCall.before, lastCall.water_name, r.XS_LN_ID)
              new == RowOf(files, lastCall.water_name, r.XS_LN_ID)
              set == {f \in Range(fields) : new.wse[f] = r.WSEL}
          IN  /\ set = FieldsOfText(r.EVENT_TYP)
              /\ Cardinality(set) <= 1
              /\ \A f \in Range(fields) \ set : new.wse[f] = old.wse[f]
              /\ \A x \in Range(files[XsElev(lastCall.water_name)].rows) :
                    x.XS_LN_ID # r.XS_LN_ID
                    => x = RowOf(lastCall.before, lastCall.water_name, x.XS_LN_ID)

\* the long text of the 1% event has set WSE_01pct and nothing else
C22_Witness ==
    /\ JoinedOneRecord
    /\ elev_table[1].EVENT_TYP = "1 Percent Chance"
    /\ RowOf(files, "Clear Creek", "A").wse["WSE_01pct"] = 5
    /\ \A f \in Range(fields) \ {"WSE_01pct"} :
          RowOf(files, "Clear Creek", "A").wse[f] = Placeholder

\* a record with a text no script names has left every field at the
\* placeholder
C22_WitnessUnrecognized ==
    /\ JoinedOneRecord
    /\ elev_table[1].EVENT_TYP = "01min"
    /\ \A f \in Range(fields) : RowOf(files, "Clear Creek", "A").wse[f] = Placeholder

\* the datasets a per-event stage reads, as the paths it passes to the engine
PathsRead ==
    {lastCall.ops[i].a[1] :
        i \in {j \in DOMAIN lastCall.ops :
                  \/ lastCall.fn = "create_full_with_raster" /\ lastCall.ops[j].op = "TinRaster"
                  \/ lastCall.fn = "clip_raster" /\ lastCall.ops[j].op = "ExtractByMask"
                  \/ lastCall.fn = "extract_raster_from_dem" /\ lastCall.ops[j].op = "Rename"}}

\* C23: every artifact of a stream is written under the stream's lower-cased,
\* name-normalized subfolder, and the path at which a stage looks for an
\* artifact is character for character the path at which it was written.
C23_PathsAgree ==
    /\ \A k \in DOMAIN files :
          files[k].name[1] # ""
          => files[k].name[1] \in {StreamFolder(wn) : wn \in Range(process_list)}
    /\ \A p \in PathsRead : lastCall.before[Key(p)].name = p

\* the final per-stream grids of the last call's event that the workspace
\* held when the call began
FinalGridsOfEvent ==
    {FinalOf(wn, lastCall.event) : wn \in Range(process_list)}
        \cap DOMAIN lastCall.before

\* C24: the rasters mosaic_wse_grid merges are exactly the final per-stream
\* grids <event>.tif of the event: no intermediate raster, no raster of
\* another event, no composite of an earlier mosaic, in a first run and in a
\* re-run over an existing workspace.
C24_MergesFinalGridsOnly ==
    lastCall.fn = "mosaic_wse_grid"
    => \A i \in DOMAIN lastCall.ops :
          /\ lastCall.ops[i].op = "Mosaic" => lastCall.ops[i].a[2] = FinalGridsOfEvent
          /\ lastCall.ops[i].op = "Copy" => lastCall.ops[i].a[1] \in FinalGridsOfEvent

\* C25: after main completes without failure, in a first run or in a re-run,
\* each stream folder holds at most one raster per event, the final
\* <event>.tif; no <event>_full.tif (or <event>_temp.tif) remains.
C25_OneRasterPerEvent ==
    status = "done"
    => \A k \in DOMAIN files :
          (files[k].kind = "raster" /\ k[1] # "") => k[3] = ".tif"

\* C26: if an engine call fails inside extract_raster_from_dem, the
\* flood-extent-clipped raster that existed before the stage is still present
\* under its final name <event>.tif with unchanged cells.
C26_FailedFloorKeepsGrid ==
    LET final == FinalOf(lastCall.water_name, lastCall.event)
    IN  (/\ lastCall.fn = "extract_raster_from_dem"
         /\ lastCall.ctl = "raise"
         /\ final \in DOMAIN lastCall.before)
        => /\ final \in DOMAIN files
           /\ files[final].cell = lastCall.before[final].cell

\* the precision text spells an integer from 0 through 5
Accepted(t) == int(t).ok /\ int(t).v \in 0..5

\* C27: for every precision determine_precision accepts (0 through 5) the
\* multiplier it returns is not zero, so the rounding formula never divides
\* by zero; every other precision text is rejected with exit status 1 before
\* any raster is written.
C27_MultiplierNonZero ==
    round.dp.called
    => IF Accepted(round.precision)
       THEN round.dp.exit = 0 /\ round.dp.multiplier # 0
       ELSE round.status = "exit1" /\ round.written = <<>>

====
